---- MODULE Spec2Model ----
(***************************************************************************)
(* A model of the laning Markov game (src/src/env.py), its tabular         *)
(* Q-learning agent (src/src/agents.py) and the helpers of                 *)
(* src/src/utils.py.                                                       *)
(*                                                                         *)
(* Every public method of LaneEnv and every attribute of QLearningAgent a  *)
(* caller can ask for is one action.  A call either returns a value or     *)
(* raises a Python exception; the variable ret holds the outcome of the    *)
(* last call together with its arguments.                                  *)
(*                                                                         *)
(* Floating-point quantities (rewards, probabilities, the advantage g) are *)
(* kept as integers counting hundredths: 0.3 is 30, 5.0 is 500.            *)
(***************************************************************************)
EXTENDS Integers, Sequences, FiniteSets, TLC

VARIABLES w, m_self, m_opp, v_self, v_opp, g, t, Q, ret

vars == <<w, m_self, m_opp, v_self, v_opp, g, t, Q, ret>>
env_vars == <<w, m_self, m_opp, v_self, v_opp, g, t>>

(***************************************************************************)
(* Bounds of the model (not program constants).                            *)
(***************************************************************************)
\* Action arguments range over 0..MaxActionArg; 0..2 are SP, SH, F and the
\* rest are outside the canonical set.
MaxActionArg == 3
\* The agent is called with observations whose wave is in 0..MaxObsWave and
\* whose other five components are 0.
MaxObsWave == 1

(***************************************************************************)
(* Program constants.                                                      *)
(***************************************************************************)
SP == 0
SH == 1
F == 2
\* (ACTIONS is a reserved word of TLA+.)
ACTIONS_ == <<SP, SH, F>>

\* LaneParams defaults, reals in hundredths.
T == 40
G == 3
eps == 30
p_v == 60
b_plates == 60
b_deny == 40
b_deny_bonus == 20
b_crash == 80
q0 == 5
q1 == 20
q2 == 15
L == 5

\* def gank_penalty(self, w, v, a) takes four positional arguments; the call
\* self.gank_penalty(self, w, v, a_self) in reward passes five (the receiver
\* and four explicit ones).
gank_penalty_params == 4
reward_gank_call_args == 5

\* QLearningAgent defaults, in hundredths.
alpha == 15
gamma == 95
agent_eps == 15

(***************************************************************************)
(* Values and outcomes of calls.                                           *)
(***************************************************************************)
NoneVal == [kind |-> "None"]
NumVal(x) == [kind |-> "num", v |-> x]
ObsVal(o) == [kind |-> "obs", v |-> o]
ObsPairVal(o_you, o_opp) == [kind |-> "obs_pair", obs_you |-> o_you, obs_opp |-> o_opp]
StepVal(o_you, o_opp, r_self, r_opp, flag) ==
    [kind |-> "step", obs_you |-> o_you, obs_opp |-> o_opp,
     r_self |-> r_self, r_opp |-> r_opp, done |-> flag]
PolicyVal(Q_copy, acts) == [kind |-> "policy", Q_copy |-> Q_copy, actions |-> acts]

Return(val) == [exc |-> "none", val |-> val]
Raise(e) == [exc |-> e, val |-> NoneVal]

I(cond) == IF cond THEN 1 ELSE 0

Min2(a, b) == IF a < b THEN a ELSE b
Max2(a, b) == IF a > b THEN a ELSE b

clip(x, low, high) == IF x < low THEN low ELSE IF x > high THEN high ELSE x

\* The outcomes random.random() < p can have: 1 needs p > 0, 0 needs p < 1.
bernoulli(p) == {x \in {0, 1} : (x = 1 => p > 0) /\ (x = 0 => p < 100)}

InSeq(x, s) == \E i \in 1..Len(s) : s[i] = x

(***************************************************************************)
(* LaneEnv: attributes of the class, projections and pure helpers.         *)
(***************************************************************************)
LaneEnv_methods ==
    {"__init__", "ss_you", "ss_opp", "delta_w", "payoff_matrix",
     "gank_penalty", "wave_update", "reset", "reward", "step"}

ss_you == <<w, m_self, m_opp, v_self, v_opp, g>>
ss_opp == <<-w, m_opp, m_self, v_opp, v_self, -g>>

\* delta_w without its raise: an unknown action moves the wave by 0.
delta_w_unknown_is_zero(a) ==
    IF a = SP THEN Return(1)
    ELSE IF a = SH THEN Return(2)
    ELSE IF a = F THEN Return(-1)
    ELSE Return(0)

delta_w(a) ==
    IF a = SP THEN Return(1)
    ELSE IF a = SH THEN Return(2)
    ELSE IF a = F THEN Return(-1)
    ELSE Raise("ValueError")

interactions == {<<SP, SH>>, <<SH, F>>, <<F, SP>>}

\* payoff_matrix with the sign of the counter matchup flipped.
payoff_matrix_sign_flipped(a, b) ==
    IF a = b THEN 0
    ELSE IF <<a, b>> \in interactions THEN -eps ELSE eps

\* payoff_matrix that pays the counter matchup and charges nothing otherwise.
payoff_matrix_no_loss(a, b) ==
    IF a = b THEN 0
    ELSE IF <<a, b>> \in interactions THEN eps ELSE 0

payoff_matrix(a, b) ==
    IF a = b THEN 0
    ELSE IF <<a, b>> \in interactions THEN eps ELSE -eps

gank_penalty(w_, v, a) ==
    LET base == q0 + q1 * I(w_ = 2) + q2 * I(a = SH)
    IN (1 - v) * Max2(0, Min2(100, base))

wave_update(m, a, w_next) ==
    IF a = SP /\ w_next < 2 THEN Min2(2, m + 1)
    ELSE IF a = SH /\ w_next = 2 THEN 0
    ELSE IF a = F THEN Max2(0, m - 1)
    ELSE m

\* Looking up a method of a LaneEnv instance and calling it with (m, a, w_next):
\* a name the class does not define raises AttributeError.
LaneEnv_call3(name, m, a, w_next) ==
    IF name \notin LaneEnv_methods THEN Raise("AttributeError")
    ELSE IF name = "wave_update" THEN Return(wave_update(m, a, w_next))
    ELSE IF name = "gank_penalty" THEN Return(gank_penalty(m, a, w_next))
    ELSE Raise("TypeError")

\* The outcomes of reward(w, m, v, a_self, a_opp, w_next): the shaped reward
\* with each possible gank draw, unless the call of gank_penalty raises.
reward(w_, m, v, a_self, a_opp, w_next) ==
    LET r == payoff_matrix(a_self, a_opp)
             + b_plates * I(a_self = SH) * I(w_ >= 1)
             + b_deny * I(a_self = F) * I(w_ <= -1)
             + b_deny_bonus * I(a_self = F) * I(w_ <= -1) * I(a_opp \in {SP, SH})
             + b_crash * I(w_next = 2) * I(m = 2)
    IN IF reward_gank_call_args # gank_penalty_params
       THEN {Raise("TypeError")}
       ELSE {Return(r - L * 100 * gank) : gank \in bernoulli(gank_penalty(w_, v, a_self))}

EnvState ==
    [w |-> w, m_self |-> m_self, m_opp |-> m_opp, v_self |-> v_self,
     v_opp |-> v_opp, g |-> g, t |-> t]

\* An outcome of a call that changes the environment: what it returns or
\* raises, and the state it leaves.
Outcome(res, st) == [exc |-> res.exc, val |-> res.val, st |-> st]

\* reset that leaves the player's vision switched on.
reset_vision_on ==
    Outcome(Return(NoneVal),
            [w |-> 0, m_self |-> 0, m_opp |-> 0, v_self |-> 1, v_opp |-> 0,
             g |-> 0, t |-> 0])

\* reset that returns the two observations of the state it leaves.
reset_returns_observations ==
    Outcome(Return(ObsPairVal(<<0, 0, 0, 0, 0, 0>>, <<0, 0, 0, 0, 0, 0>>)),
            [w |-> 0, m_self |-> 0, m_opp |-> 0, v_self |-> 0, v_opp |-> 0,
             g |-> 0, t |-> 0])

\* reset(): returns None.
reset ==
    Outcome(Return(NoneVal),
            [w |-> 0, m_self |-> 0, m_opp |-> 0, v_self |-> 0, v_opp |-> 0,
             g |-> 0, t |-> 0])

\* The rest of step once both rewards and both vision draws are known.
step_commit(a_self, a_opp, w_next, rs, ro, vs, vo) ==
    LET w_next_opp == -w_next
        g_next == Max2(-G * 100, Min2(G * 100, g + (rs.val - ro.val)))
        ms == LaneEnv_call3("update_stack", m_self, a_self, w_next)
        mo == LaneEnv_call3("update_stack", m_opp, a_opp, w_next_opp)
    IN IF rs.exc # "none" THEN Outcome(Raise(rs.exc), EnvState)
       ELSE IF ro.exc # "none" THEN Outcome(Raise(ro.exc), EnvState)
       ELSE IF ms.exc # "none" THEN Outcome(Raise(ms.exc), EnvState)
       ELSE IF mo.exc # "none"
            THEN Outcome(Raise(mo.exc), [EnvState EXCEPT !.m_self = ms.val])
       ELSE LET st == [w |-> w_next, m_self |-> ms.val, m_opp |-> mo.val,
                       v_self |-> vs, v_opp |-> vo, g |-> g_next, t |-> t + 1]
                flag == st.t >= T
            IN Outcome(Return(StepVal(
                           <<st.w, st.m_self, st.m_opp, st.v_self, st.v_opp, st.g>>,
                           <<-st.w, st.m_opp, st.m_self, st.v_opp, st.v_self, -st.g>>,
                           rs.val, ro.val, flag)),
                       st)

\* step that stores the raw next wave in self.w before it computes the
\* rewards, so that a raise in reward leaves the unclamped wave behind.
step_stores_raw_wave_first(a_self, a_opp) ==
    LET d_self == delta_w(a_self)
        d_opp == delta_w(a_opp)
    IN IF d_self.exc # "none" THEN {Outcome(Raise(d_self.exc), EnvState)}
       ELSE IF d_opp.exc # "none" THEN {Outcome(Raise(d_opp.exc), EnvState)}
       ELSE LET raw == w + d_self.val - d_opp.val
                w_next == Max2(-2, Min2(2, raw))
                early(o) == IF o.exc = "none" THEN o ELSE [o EXCEPT !.st.w = raw]
            IN {early(step_commit(a_self, a_opp, w_next, rs, ro, vs, vo)) :
                   rs \in reward(w, m_self, v_self, a_self, a_opp, w_next),
                   ro \in reward(-w, m_opp, v_opp, a_opp, a_self, -w_next),
                   vs \in bernoulli(p_v), vo \in bernoulli(p_v)}

\* step that adds the payoff-matrix difference of the two players to
\* self.g before it computes the rewards, so that a raise in reward leaves
\* the partial sum behind.
step_adds_payoff_to_g_first(a_self, a_opp) ==
    LET d_self == delta_w(a_self)
        d_opp == delta_w(a_opp)
    IN IF d_self.exc # "none" THEN {Outcome(Raise(d_self.exc), EnvState)}
       ELSE IF d_opp.exc # "none" THEN {Outcome(Raise(d_opp.exc), EnvState)}
       ELSE LET w_next == Max2(-2, Min2(2, w + d_self.val - d_opp.val))
                part == Max2(-G * 100, Min2(G * 100,
                            g + payoff_matrix(a_self, a_opp) - payoff_matrix(a_opp, a_self)))
                early(o) == IF o.exc = "none" THEN o ELSE [o EXCEPT !.st.g = part]
            IN {early(step_commit(a_self, a_opp, w_next, rs, ro, vs, vo)) :
                   rs \in reward(w, m_self, v_self, a_self, a_opp, w_next),
                   ro \in reward(-w, m_opp, v_opp, a_opp, a_self, -w_next),
                   vs \in bernoulli(p_v), vo \in bernoulli(p_v)}

\* The outcomes of step(a_self, a_opp) in the current state.
step(a_self, a_opp) ==
    LET d_self == delta_w(a_self)
        d_opp == delta_w(a_opp)
    IN IF d_self.exc # "none" THEN {Outcome(Raise(d_self.exc), EnvState)}
       ELSE IF d_opp.exc # "none" THEN {Outcome(Raise(d_opp.exc), EnvState)}
       ELSE LET w_next == Max2(-2, Min2(2, w + d_self.val - d_opp.val))
            IN {step_commit(a_self, a_opp, w_next, rs, ro, vs, vo) :
                   rs \in reward(w, m_self, v_self, a_self, a_opp, w_next),
                   ro \in reward(-w, m_opp, v_opp, a_opp, a_self, -w_next),
                   vs \in bernoulli(p_v), vo \in bernoulli(p_v)}

(***************************************************************************)
(* QLearningAgent.  The class body defines __init__ only: act, update and  *)
(* snapshot_greedy_policy are functions local to __init__, which are       *)
(* dropped when it returns.                                                *)
(***************************************************************************)
QLearningAgent_methods == {"__init__"}

\* The names bound in the body of update when its last line runs.
update_locals == {"self", "s", "a", "r", "s_next", "a_i", "q_sa", "target"}

\* self.actions = list(ACTIONS)
actions == ACTIONS_

\* The row the defaultdict creates for a key it does not hold.
zero_row == [i \in 1..Len(ACTIONS_) |-> 0]

\* The table after self.Q[s] was evaluated: a missing row is inserted.
Q_touch(Qt, s) ==
    IF s \in DOMAIN Qt THEN Qt
    ELSE [o \in DOMAIN Qt \cup {s} |-> IF o = s THEN zero_row ELSE Qt[o]]

\* max(q) of a non-empty list.
max_of(q) == CHOOSE x \in {q[i] : i \in 1..Len(q)} : \A j \in 1..Len(q) : q[j] <= x

\* max(range(len(q)), key=lambda i: q[i]): the first index holding the
\* maximum (1-based here).
argmax_first(q) ==
    CHOOSE i \in 1..Len(q) :
        /\ q[i] = max_of(q)
        /\ \A j \in 1..(i - 1) : q[j] < q[i]

\* list.index(a): the first position of a, or ValueError.
index(lst, a) ==
    IF InSeq(a, lst)
    THEN Return(CHOOSE i \in 1..Len(lst) : lst[i] = a /\ \A j \in 1..(i - 1) : lst[j] # a)
    ELSE Raise("ValueError")

AgentOutcome(res, Qt) == [exc |-> res.exc, val |-> res.val, Q |-> Qt]

\* The outcomes of the local function act(self, s) on table Qt.
act(Qt, s) ==
    LET Q1 == Q_touch(Qt, s)
        high_i == argmax_first(Q1[s])
    IN {AgentOutcome(Return(NumVal(actions[i])), Qt) :
            i \in {j \in 1..Len(actions) : agent_eps > 0}}
       \cup {AgentOutcome(Return(NumVal(actions[high_i])), Q1) : x \in {y \in {0} : agent_eps < 100}}

\* The outcome of the local function update(self, s, a, r, s_next) on table
\* Qt: its last line stores through the name ai, which is never bound.
update(Qt, s, a, r, s_next) ==
    LET a_i == index(actions, a)
        Q1 == Q_touch(Qt, s)
        q_sa == Q1[s][a_i.val]
        Q2 == Q_touch(Q1, s_next)
        target == r + (gamma * max_of(Q2[s_next])) \div 100
        new == q_sa + (alpha * (target - q_sa)) \div 100
    IN IF a_i.exc # "none" THEN AgentOutcome(Raise(a_i.exc), Qt)
       ELSE IF "ai" \notin update_locals THEN AgentOutcome(Raise("NameError"), Q2)
       ELSE AgentOutcome(Return(NoneVal),
                         [Q2 EXCEPT ![s] = [Q2[s] EXCEPT ![a_i.val] = new]])

\* The frozen policy pi(s) closed over Q_copy and actions.
pi(Q_copy, acts, s) ==
    LET q == IF s \in DOMAIN Q_copy THEN Q_copy[s] ELSE [i \in 1..Len(acts) |-> 0]
        best_i == argmax_first(q)
    IN acts[best_i]

\* The outcomes of the local function snapshot_greedy_policy(self) on table
\* Qt.  The annotation of pi names Obs, which is bound nowhere: an
\* interpreter that evaluates annotations when the def runs raises
\* NameError, one that defers them returns the policy.
snapshot_greedy_policy(Qt) ==
    {AgentOutcome(Raise("NameError"), Qt),
     AgentOutcome(Return(PolicyVal(Qt, actions)), Qt)}

\* agent.<name>: an attribute neither the instance nor the class holds
\* raises AttributeError.
call_act(s) ==
    IF "act" \in QLearningAgent_methods THEN act(Q, s)
    ELSE {AgentOutcome(Raise("AttributeError"), Q)}

\* agent.update that is found, runs, and stores the new value in every
\* column of the row instead of the column of the action.
call_update_writes_whole_row(s, a, r, s_next) ==
    LET a_i == index(actions, a)
        Q1 == Q_touch(Q, s)
        q_sa == Q1[s][a_i.val]
        Q2 == Q_touch(Q1, s_next)
        target == r + (gamma * max_of(Q2[s_next])) \div 100
        new == q_sa + (alpha * (target - q_sa)) \div 100
    IN IF a_i.exc # "none" THEN {AgentOutcome(Raise(a_i.exc), Q)}
       ELSE {AgentOutcome(Return(NoneVal),
                          [Q2 EXCEPT ![s] = [i \in 1..Len(actions) |-> new]])}

call_update(s, a, r, s_next) ==
    IF "update" \in QLearningAgent_methods THEN {update(Q, s, a, r, s_next)}
    ELSE {AgentOutcome(Raise("AttributeError"), Q)}

call_snapshot_greedy_policy ==
    IF "snapshot_greedy_policy" \in QLearningAgent_methods THEN snapshot_greedy_policy(Q)
    ELSE {AgentOutcome(Raise("AttributeError"), Q)}

(***************************************************************************)
(* Inputs of the calls.                                                    *)
(***************************************************************************)
ActionArgs == 0..MaxActionArg
WaveArgs == -2..2
StackArgs == 0..2
VisionArgs == {0, 1}
ObsArgs == {<<x, 0, 0, 0, 0, 0>> : x \in 0..MaxObsWave}
RewardArgs == {0, 100}

Call(op, args, out) == [op |-> op, args |-> args, exc |-> out.exc, val |-> out.val]

(***************************************************************************)
(* The state after construction: LaneEnv(LaneParams()) runs reset(), and   *)
(* QLearningAgent() starts with an empty table.                            *)
(***************************************************************************)
Init ==
    /\ w = reset.st.w
    /\ m_self = reset.st.m_self
    /\ m_opp = reset.st.m_opp
    /\ v_self = reset.st.v_self
    /\ v_opp = reset.st.v_opp
    /\ g = reset.st.g
    /\ t = reset.st.t
    /\ Q = <<>>
    /\ ret = Call("__init__", <<>>, Return(NoneVal))

SetEnv(st) ==
    /\ w' = st.w
    /\ m_self' = st.m_self
    /\ m_opp' = st.m_opp
    /\ v_self' = st.v_self
    /\ v_opp' = st.v_opp
    /\ g' = st.g
    /\ t' = st.t

(***************************************************************************)
(* One action per call.                                                    *)
(***************************************************************************)
Reset ==
    /\ SetEnv(reset.st)
    /\ ret' = Call("reset", <<>>, reset)
    /\ UNCHANGED Q

Step ==
    \E a_self \in ActionArgs, a_opp \in ActionArgs :
        \E out \in step(a_self, a_opp) :
            /\ SetEnv(out.st)
            /\ ret' = Call("step", <<a_self, a_opp>>, out)
            /\ UNCHANGED Q

SsYou ==
    /\ ret' = Call("ss_you", <<>>, Return(ObsVal(ss_you)))
    /\ UNCHANGED <<env_vars, Q>>

SsOpp ==
    /\ ret' = Call("ss_opp", <<>>, Return(ObsVal(ss_opp)))
    /\ UNCHANGED <<env_vars, Q>>

DeltaW ==
    \E a \in ActionArgs :
        LET d == delta_w(a)
        IN /\ ret' = Call("delta_w", <<a>>,
                          IF d.exc = "none" THEN Return(NumVal(d.val)) ELSE d)
           /\ UNCHANGED <<env_vars, Q>>

PayoffMatrix ==
    \E a \in ActionArgs, b \in ActionArgs :
        /\ ret' = Call("payoff_matrix", <<a, b>>, Return(NumVal(payoff_matrix(a, b))))
        /\ UNCHANGED <<env_vars, Q>>

GankPenalty ==
    \E w_ \in WaveArgs, v \in VisionArgs, a \in ActionArgs :
        /\ ret' = Call("gank_penalty", <<w_, v, a>>, Return(NumVal(gank_penalty(w_, v, a))))
        /\ UNCHANGED <<env_vars, Q>>

WaveUpdate ==
    \E m \in StackArgs, a \in ActionArgs, w_next \in WaveArgs :
        /\ ret' = Call("wave_update", <<m, a, w_next>>, Return(NumVal(wave_update(m, a, w_next))))
        /\ UNCHANGED <<env_vars, Q>>

Reward ==
    \E w_ \in WaveArgs, m \in StackArgs, v \in VisionArgs,
       a_self \in ActionArgs, a_opp \in ActionArgs, w_next \in WaveArgs :
        \E r \in reward(w_, m, v, a_self, a_opp, w_next) :
            /\ ret' = Call("reward", <<w_, m, v, a_self, a_opp, w_next>>,
                           IF r.exc = "none" THEN Return(NumVal(r.val)) ELSE r)
            /\ UNCHANGED <<env_vars, Q>>

AgentAct ==
    \E s \in ObsArgs :
        \E out \in call_act(s) :
            /\ Q' = out.Q
            /\ ret' = Call("act", <<s>>, out)
            /\ UNCHANGED env_vars

AgentUpdate ==
    \E s \in ObsArgs, a \in ActionArgs, r \in RewardArgs, s_next \in ObsArgs :
        \E out \in call_update(s, a, r, s_next) :
            /\ Q' = out.Q
            /\ ret' = Call("update", <<s, a, r, s_next>>, out)
            /\ UNCHANGED env_vars

AgentSnapshot ==
    \E out \in call_snapshot_greedy_policy :
        /\ Q' = out.Q
        /\ ret' = Call("snapshot_greedy_policy", <<>>, out)
        /\ UNCHANGED env_vars

Next ==
    \/ Reset
    \/ Step
    \/ SsYou
    \/ SsOpp
    \/ DeltaW
    \/ PayoffMatrix
    \/ GankPenalty
    \/ WaveUpdate
    \/ Reward
    \/ AgentAct
    \/ AgentUpdate
    \/ AgentSnapshot

Spec == Init /\ [][Next]_vars

(***************************************************************************)
(* Properties.                                                             *)
(***************************************************************************)
ValidAction(a) == InSeq(a, ACTIONS_)
StepCalled == ret.op = "step"
StepCalledValid == StepCalled /\ ValidAction(ret.args[1]) /\ ValidAction(ret.args[2])
StepCalledInvalid == StepCalled /\ ~(ValidAction(ret.args[1]) /\ ValidAction(ret.args[2]))
Mirror(o) == <<-o[1], o[3], o[2], o[5], o[4], -o[6]>>

\* C1: in every reachable state w is in [-2,2], both stacks are in {0,1,2},
\* both vision flags are in {0,1} and the advantage g is in [-G,G].
C1_ClampingInvariant ==
    /\ w \in -2..2
    /\ m_self \in 0..2
    /\ m_opp \in 0..2
    /\ v_self \in {0, 1}
    /\ v_opp \in {0, 1}
    /\ -G * 100 <= g
    /\ g <= G * 100

\* A step with two canonical actions was called and the state is in range.
C1_Witness == StepCalledValid /\ ret.args = <<SH, F>> /\ C1_ClampingInvariant

\* C2: in every reachable state observeOpp() is the mirror of observeSelf(),
\* and a step with canonical actions returns exactly the pair
\* (observeSelf(), observeOpp()) of the state it leaves.
C2_MirrorAndStepObservations ==
    /\ ss_opp = Mirror(ss_you)
    /\ StepCalledValid =>
           /\ ret.exc = "none"
           /\ ret.val.kind = "step"
           /\ ret.val.obs_you = ss_you
           /\ ret.val.obs_opp = ss_opp

\* C3: a step with canonical actions returns, and the done flag it returns
\* is true exactly when the steps taken since reset number T or more: false
\* for each of the first T - 1 steps, true for the T-th.
C3_DoneAfterExactlyT ==
    StepCalledValid =>
        /\ ret.exc = "none"
        /\ ret.val.kind = "step"
        /\ t >= 1
        /\ ret.val.done = (t >= T)

PayoffCalled == ret.op = "payoff_matrix"

C5_PayoffAntisymmetry ==
    (PayoffCalled /\ ValidAction(ret.args[1]) /\ ValidAction(ret.args[2])) =>
        /\ ret.exc = "none"
        /\ ret.val.v = -payoff_matrix(ret.args[2], ret.args[1])
        /\ ret.args[1] = ret.args[2] => ret.val.v = 0

\* payoff_matrix was called on two different canonical actions and returned
\* a non-zero value.
C5_Witness ==
    /\ PayoffCalled
    /\ ValidAction(ret.args[1])
    /\ ValidAction(ret.args[2])
    /\ ret.args[1] # ret.args[2]
    /\ ret.val.v = -eps

\* C6: snapshotGreedyPolicy() returns a policy, which answers every
\* observation with the greedy action of the Q-table as it was at the call,
\* and an update of the live agent that follows completes and leaves the
\* answers of that policy alone.
C6_SnapshotIsolation ==
    /\ ret.op = "snapshot_greedy_policy" =>
           /\ ret.exc = "none"
           /\ ret.val.kind = "policy"
           /\ \A o \in ObsArgs :
                  pi(ret.val.Q_copy, ret.val.actions, o)
                      = actions[argmax_first(Q_touch(Q, o)[o])]
    /\ (ret.op = "update" /\ ValidAction(ret.args[2])) => ret.exc = "none"

\* C7: a step with two canonical actions completes without raising and
\* returns the observation pair, the reward pair and done; the only error a
\* step raises is the invalid-action error, for a non-canonical action.
C7_StepTotalOnValidActions ==
    /\ StepCalledValid => (ret.exc = "none" /\ ret.val.kind = "step")
    /\ StepCalledInvalid => ret.exc = "ValueError"

\* C8: a step given a non-canonical action fails with the invalid-action
\* error (ValueError) and changes none of w, m_self, m_opp, v_self, v_opp,
\* g, t.
C8_InvalidActionFailsBeforeMutation ==
    [][StepCalledInvalid' =>
           (ret'.exc = "ValueError" /\ UNCHANGED env_vars)]_vars

\* A step was called with a canonical a_self and a non-canonical a_opp and
\* raised ValueError.
C8_Witness ==
    /\ StepCalledInvalid
    /\ ValidAction(ret.args[1])
    /\ ret.exc = "ValueError"
    /\ t = 0

\* C9, as claimed: reset draws v_self and v_opp afresh, so that each of the
\* four combinations of vision flags is a possible state right after reset.
C9_ResetSamplesVisionClaimed ==
    /\ ret.op = "reset" => (w = 0 /\ m_self = 0 /\ m_opp = 0 /\ g = 0 /\ t = 0)
    /\ \A vs \in {0, 1}, vo \in {0, 1} :
           ENABLED (Reset /\ v_self' = vs /\ v_opp' = vo)

\* C9, amended: reset sets w = 0, m_self = 0, m_opp = 0, g = 0, t = 0 and
\* sets both vision flags to 0, without sampling: (0, 0) is the only
\* combination of vision flags right after reset.
C9_ResetState ==
    /\ ret.op = "reset" =>
           /\ w = 0
           /\ m_self = 0
           /\ m_opp = 0
           /\ g = 0
           /\ t = 0
           /\ v_self = 0
           /\ v_opp = 0
    /\ \A vs \in {0, 1}, vo \in {0, 1} :
           (ENABLED (Reset /\ v_self' = vs /\ v_opp' = vo)) <=> (vs = 0 /\ vo = 0)

\* reset was called and left both vision flags at 0.
C9_Witness == ret.op = "reset" /\ v_self = 0 /\ v_opp = 0 /\ t = 0

\* C10, as claimed: reset never fails and returns the pair of observations
\* (observeSelf(), observeOpp()) of the state it leaves.
C10_ResetReturnsObservationsClaimed ==
    ret.op = "reset" =>
        /\ ret.exc = "none"
        /\ ret.val = ObsPairVal(ss_you, ss_opp)

\* C10, amended: reset never fails and returns nothing (None), not the pair
\* of observations.
C10_ResetReturnsNone ==
    ret.op = "reset" => (ret.exc = "none" /\ ret.val = NoneVal)

\* reset was called and returned None.
C10_Witness == ret.op = "reset" /\ ret.exc = "none" /\ ret.val.kind = "None"


\* The value the table holds for (o, a), a missing row counting as zeros;
\* a is the 1-based position of the action.
Qval(Qt, o, a) == IF o \in DOMAIN Qt THEN Qt[o][a] ELSE 0

UpdateCalled == ret.op = "update"

\* C11: in the one-state stub, update(state, bestAction, 1, state) completes
\* and leaves Q[state][bestAction] no smaller than before and never above
\* 1/(1-gamma); and act completes, returning bestAction once its entry
\* strictly exceeds the others of the row.
C11_MonotoneTowardsFixpoint ==
    [][/\ (UpdateCalled' /\ ret' # ret /\ ret'.args[1] = ret'.args[4]
              /\ ValidAction(ret'.args[2]) /\ ret'.args[3] = 100) =>
           LET o == ret'.args[1]
               a == index(actions, ret'.args[2]).val
           IN /\ ret'.exc = "none"
              /\ Qval(Q', o, a) >= Qval(Q, o, a)
              /\ Qval(Q', o, a) * (100 - gamma) <= 100 * 100
       /\ (ret'.op = "act" /\ ret' # ret) =>
           LET o == ret'.args[1]
           IN /\ ret'.exc = "none"
              /\ \A a \in 1..Len(actions) :
                     (\A b \in 1..Len(actions) : b # a => Qval(Q, o, a) > Qval(Q, o, b))
                         => ret'.val.v \in {actions[a]} \cup {x \in {SP, SH, F} : agent_eps > 0}]_vars


\* g, kept in hundredths, is a whole number.
IsWhole(x) == x % 100 = 0

\* C12: every component of every observation is an integer; in particular
\* the advantage g is a whole number in [-G, G] in every reachable state,
\* and so is the g of every observation handed out.
C12_IntegerObservations ==
    /\ IsWhole(g)
    /\ -G * 100 <= g
    /\ g <= G * 100
    /\ ret.op \in {"ss_you", "ss_opp"} =>
           /\ ret.val.kind = "obs"
           /\ IsWhole(ret.val.v[6])
           /\ ret.val.v[1] \in -2..2
           /\ ret.val.v[2] \in 0..2
           /\ ret.val.v[3] \in 0..2
           /\ ret.val.v[4] \in {0, 1}
           /\ ret.val.v[5] \in {0, 1}

\* A step with canonical actions of different payoff was called and the
\* advantage is a whole number.
C12_Witness == StepCalledValid /\ ret.args = <<SP, F>> /\ IsWhole(g)


\* C13: after a step with canonical actions the wave is
\* clamp(w + delta(a_self) - delta(a_opp), -2, 2), with delta(SPLIT) = +1,
\* delta(SHOVE) = +2, delta(FREEZE) = -1; from the reset state
\* step(SPLIT, FREEZE) gives w = 2.
C13_WaveAfterStep ==
    [][StepCalledValid' =>
           LET delta(a) == IF a = SP THEN 1 ELSE IF a = SH THEN 2 ELSE -1
           IN /\ ret'.exc = "none"
              /\ w' = clip(w + delta(ret'.args[1]) - delta(ret'.args[2]), -2, 2)]_vars

\* C14: after a step with canonical actions each stack is the player's old
\* stack updated from the player's own action and own-perspective wave (w'
\* for self, -w' for the opponent): SPLIT below wave 2 adds one up to 2,
\* SHOVE at wave 2 gives 0, FREEZE takes one off down to 0, else unchanged.
C14_StacksAfterStep ==
    [][StepCalledValid' =>
           LET stack(m, a, wn) ==
                   IF a = SP /\ wn < 2 THEN Min2(2, m + 1)
                   ELSE IF a = SH /\ wn = 2 THEN 0
                   ELSE IF a = F THEN Max2(0, m - 1)
                   ELSE m
           IN /\ ret'.exc = "none"
              /\ m_self' = stack(m_self, ret'.args[1], w')
              /\ m_opp' = stack(m_opp, ret'.args[2], -w')]_vars

\* C15: reward(w, m, v, a_self, a_opp, w_next) on canonical actions returns
\* payoff + b_plates*[SHOVE, w >= 1] + b_deny*[FREEZE, w <= -1]
\* + b_deny_bonus*[FREEZE, w <= -1, a_opp in {SPLIT, SHOVE}]
\* + b_crash*[w_next = 2, m = 2] - L*gank, with gank in {0, 1} and gank = 0
\* when v = 1.
C15_RewardFormula ==
    (ret.op = "reward" /\ ValidAction(ret.args[4]) /\ ValidAction(ret.args[5])) =>
        LET w_ == ret.args[1]
            m == ret.args[2]
            v == ret.args[3]
            a_self == ret.args[4]
            a_opp == ret.args[5]
            w_next == ret.args[6]
            base == payoff_matrix(a_self, a_opp)
                    + (IF a_self = SH /\ w_ >= 1 THEN b_plates ELSE 0)
                    + (IF a_self = F /\ w_ <= -1 THEN b_deny ELSE 0)
                    + (IF a_self = F /\ w_ <= -1 /\ a_opp \in {SP, SH} THEN b_deny_bonus ELSE 0)
                    + (IF w_next = 2 /\ m = 2 THEN b_crash ELSE 0)
        IN /\ ret.exc = "none"
           /\ ret.val.kind = "num"
           /\ \E gank \in {0, 1} :
                  /\ v = 1 => gank = 0
                  /\ ret.val.v = base - L * 100 * gank

\* C16: after a step with canonical actions the advantage is
\* clamp(g + (rewardSelf - rewardOpp), -G, G) for the pre-step g and the two
\* rewards that step returned.
C16_AdvantageAfterStep ==
    [][StepCalledValid' =>
           /\ ret'.exc = "none"
           /\ ret'.val.kind = "step"
           /\ g' = clip(g + (ret'.val.r_self - ret'.val.r_opp), -G * 100, G * 100)]_vars


\* C17: the policy snapshotGreedyPolicy() returns answers every observation,
\* seen or not, with the lowest-index action of [SPLIT, SHOVE, FREEZE] among
\* those of maximum Q-value (SPLIT for an unseen or all-zero row), and act
\* returns that same action when it does not explore.
C17_SnapshotAgreesWithGreedyAct ==
    LET greedy(o) ==
            CHOOSE a \in 1..Len(ACTIONS_) :
                /\ \A b \in 1..Len(ACTIONS_) : Qval(Q, o, b) <= Qval(Q, o, a)
                /\ \A b \in 1..(a - 1) : Qval(Q, o, b) < Qval(Q, o, a)
    IN /\ ret.op = "snapshot_greedy_policy" =>
              /\ ret.exc = "none"
              /\ ret.val.kind = "policy"
              /\ \A o \in ObsArgs :
                     /\ pi(ret.val.Q_copy, ret.val.actions, o) = ACTIONS_[greedy(o)]
                     /\ (\A b \in 1..Len(ACTIONS_) : Qval(Q, o, b) = 0)
                            => pi(ret.val.Q_copy, ret.val.actions, o) = SP
       /\ ret.op = "act" =>
              /\ ret.exc = "none"
              /\ ret.val.kind = "num"
              /\ agent_eps = 0 => ret.val.v = ACTIONS_[greedy(ret.args[1])]

\* C18: update(o, a, r, o_next) with a canonical action completes and sets
\* Q[o][index(a)] to old + alpha*(r + gamma*max(Q[o_next]) - old), rows that
\* are missing counting as zeros and max(Q[o_next]) read before the write.
C18_UpdateRule ==
    [][(UpdateCalled' /\ ret' # ret /\ ValidAction(ret'.args[2])) =>
           LET o == ret'.args[1]
               a == index(ACTIONS_, ret'.args[2]).val
               r == ret'.args[3]
               o_next == ret'.args[4]
               old == Qval(Q, o, a)
               best == max_of([b \in 1..Len(ACTIONS_) |-> Qval(Q, o_next, b)])
               target == r + (gamma * best) \div 100
           IN /\ ret'.exc = "none"
              /\ Qval(Q', o, a) = old + (alpha * (target - old)) \div 100]_vars

\* C19: with a missing row read as zeros, a Q-value changes only in a call
\* of update(o, a, r, o_next), and then only the entry of (o, a): act,
\* snapshotGreedyPolicy and every other call leave all entries as they were.
C19_OnlyUpdateWritesOneEntry ==
    [][\A o \in ObsArgs, a \in 1..Len(ACTIONS_) :
           Qval(Q', o, a) # Qval(Q, o, a) =>
               /\ ret'.op = "update"
               /\ o = ret'.args[1]
               /\ ValidAction(ret'.args[2])
               /\ a = index(ACTIONS_, ret'.args[2]).val]_vars

\* update was called with a canonical action and reward 1 on an observation
\* whose entries are all as they were at construction.
C19_Witness ==
    /\ UpdateCalled
    /\ ret.args[2] = SH
    /\ ret.args[3] = 100
    /\ \A o \in ObsArgs, a \in 1..Len(ACTIONS_) : Qval(Q, o, a) = 0

\* C20: every step with canonical actions is accepted whatever t is, advances
\* t by one and returns done = (t >= T) for the new t, so that done, once
\* true, stays true until reset; reset brings t back to 0.
C20_DoneMonotone ==
    [][/\ StepCalledValid' =>
              /\ ret'.exc = "none"
              /\ ret'.val.kind = "step"
              /\ t' = t + 1
              /\ (t >= T => ret'.val.done)
              /\ ret'.val.done = (t' >= T)
       /\ ret'.op = "reset" => t' = 0]_vars

====
